---------------------------- MODULE Spec2Model ----------------------------
(***************************************************************************)
(* Ryattl: a terminal task list kept in one flat file (".ryattl").         *)
(*                                                                         *)
(* One invocation of the program (internal_main, src/src/main.rs) parses   *)
(* its arguments, loads the file (get_tasklist), runs one command on the   *)
(* in-memory Vec<Task> and, for add / modify / remove, writes the file     *)
(* back (save_tasklist).                                                   *)
(*                                                                         *)
(* Text is modelled as a sequence of one-character strings.  The two       *)
(* separators are the symbols "LF" ('\n', RECORD_SEPERATOR) and "US"       *)
(* ('\x1F', UNIT_SEPERATOR) of src/src/parsing.rs.                         *)
(***************************************************************************)
EXTENDS Integers, Sequences, FiniteSets, TLC

VARIABLES
    file,       \* content of the task-list file, a text
    pc,         \* position of the invocation: "exit", "parsed", "loaded"
    command,    \* args.command of the running invocation
    tasklist,   \* the invocation's Vec<Task>
    loaded,     \* history: tasklist as get_tasklist returned it
    file0,      \* history: the file when the invocation started
    result,     \* how the last invocation ended
    output,     \* rows printed by list / info
    runs,       \* number of invocations started so far
    argv,       \* history: the command line of the last invocation
    scenario,   \* history: progress through "add -p max buy milk",
                \* "add walk dog", "list" on an empty task list
    origin,     \* history: the file before the first invocation
    probe,      \* three priorities and the results of comparing them
    disk,       \* the directories from the root down: what each holds
                \* under the name .ryattl
    proc,       \* an invocation of init or of the search for the file
    race,       \* two invocations running at the same time on one file
    log         \* history: the file operations of the two, in their order

\* the variables of one invocation after the other
mainVars ==
    <<file, pc, command, tasklist, loaded, file0, result, output, runs, argv,
      scenario>>

\* the variables no step of an invocation changes
others == <<origin, probe, disk, proc, race, log>>

vars ==
    <<file, pc, command, tasklist, loaded, file0, result, output, runs, argv,
      scenario, origin, probe, disk, proc, race, log>>

----------------------------------------------------------------------------
(* Bounds of the model *)

MaxRuns == 3

----------------------------------------------------------------------------
(* Text *)

RECORD_SEPERATOR == "LF"
UNIT_SEPERATOR == "US"

Str_max == <<"m", "a", "x">>
Str_min == <<"m", "i", "n">>

DigitChars == <<"0", "1", "2", "3", "4", "5", "6", "7", "8", "9">>

IsDigit(c) == \E i \in 1..10 : DigitChars[i] = c

DigitVal(c) == (CHOOSE i \in 1..10 : DigitChars[i] = c) - 1

\* char::is_whitespace on the characters of the model's alphabet
IsWhitespace(c) == c \in {" ", "LF"}

\* usize's Display: the decimal numeral
RECURSIVE usize_to_string(_)
usize_to_string(n) ==
    IF n < 10 THEN <<DigitChars[n + 1]>>
    ELSE usize_to_string(n \div 10) \o <<DigitChars[(n % 10) + 1]>>

RECURSIVE DigitsValue(_, _)
DigitsValue(s, acc) ==
    IF s = <<>> THEN acc
    ELSE DigitsValue(Tail(s), 10 * acc + DigitVal(Head(s)))

\* str::parse::<usize>: an optional '+', then one or more decimal digits.
\* (The numerals of the model are far below usize::MAX: no PosOverflow.)
parse_usize(s) ==
    LET d == IF s # <<>> /\ Head(s) = "+" THEN Tail(s) ELSE s
    IN  IF d # <<>> /\ \A i \in 1..Len(d) : IsDigit(d[i])
        THEN [ok |-> TRUE, val |-> DigitsValue(d, 0)]
        ELSE [ok |-> FALSE, val |-> 0]

RECURSIVE trim_start(_)
trim_start(s) ==
    IF s # <<>> /\ IsWhitespace(Head(s)) THEN trim_start(Tail(s)) ELSE s

RECURSIVE trim_end(_)
trim_end(s) ==
    IF s # <<>> /\ IsWhitespace(s[Len(s)])
    THEN trim_end(SubSeq(s, 1, Len(s) - 1)) ELSE s

\* str::trim
trim(s) == trim_end(trim_start(s))

\* index of the first occurrence of c in s, 0 when there is none
RECURSIVE FindFrom(_, _, _)
FindFrom(s, c, i) ==
    IF i > Len(s) THEN 0
    ELSE IF s[i] = c THEN i
    ELSE FindFrom(s, c, i + 1)

\* str::lines: the pieces between line feeds; a final line feed ends the
\* last line and starts no further one.  (No carriage return occurs in the
\* model's alphabet.)
RECURSIVE lines(_)
lines(text) ==
    IF text = <<>> THEN <<>>
    ELSE LET i == FindFrom(text, RECORD_SEPERATOR, 1)
         IN  IF i = 0 THEN <<text>>
             ELSE <<SubSeq(text, 1, i - 1)>>
                    \o lines(SubSeq(text, i + 1, Len(text)))

\* str::splitn(2, sep): the text before the first separator and, when there
\* is a separator, everything after it
splitn2(string, sep) ==
    LET i == FindFrom(string, sep, 1)
    IN  IF i = 0 THEN <<string>>
        ELSE <<SubSeq(string, 1, i - 1), SubSeq(string, i + 1, Len(string))>>

----------------------------------------------------------------------------
(* Priority *)

Max == [kind |-> "Max", n |-> 0]
Min == [kind |-> "Min", n |-> 0]
Value(k) == [kind |-> "Value", n |-> k]

\* impl fmt::Display for Priority
PriorityDisplay(p) ==
    CASE p.kind = "Max" -> Str_max
      [] p.kind = "Min" -> Str_min
      [] OTHER -> usize_to_string(p.n)

\* Variant of cmp: the arm of the two equal sentinels is missing
cmp_without_equal_arm(self, other) ==
    CASE self.kind = "Max" \/ other.kind = "Min" -> "Greater"
      [] other.kind = "Max" \/ self.kind = "Min" -> "Less"
      [] OTHER -> IF self.n < other.n THEN "Less"
                  ELSE IF self.n = other.n THEN "Equal" ELSE "Greater"

\* impl Ord for Priority: the match arms in their order
cmp(self, other) ==
    CASE (self.kind = "Max" /\ other.kind = "Max")
           \/ (self.kind = "Min" /\ other.kind = "Min") -> "Equal"
      [] self.kind = "Max" \/ other.kind = "Min" -> "Greater"
      [] other.kind = "Max" \/ self.kind = "Min" -> "Less"
      [] OTHER -> IF self.n < other.n THEN "Less"
                  ELSE IF self.n = other.n THEN "Equal" ELSE "Greater"

\* parsing::parse_priority
parse_priority(string) ==
    LET t == trim(string)
    IN  IF t = Str_max THEN [ok |-> TRUE, priority |-> Max]
        ELSE IF t = Str_min THEN [ok |-> TRUE, priority |-> Min]
        ELSE LET r == parse_usize(string)
             IN  [ok |-> r.ok, priority |-> Value(r.val)]

----------------------------------------------------------------------------
(* Task *)

\* created_on of a Task that parse_task built: parse_task sets the
\* priority and the message and nothing else
Unset == 0

\* the values jiff::Zoned::now() takes in the model
Stamps == {1}

\* jiff::Zoned's Display, a text free of separators
ZonedDisplay(t) == <<"T">> \o usize_to_string(t)

\* parsing::parse_task
parse_task(string) ==
    LET items == splitn2(string, UNIT_SEPERATOR)
        p == parse_priority(items[1])
    IN  IF ~p.ok THEN [ok |-> FALSE, task |-> <<>>]
        ELSE IF Len(items) < 2 THEN [ok |-> FALSE, task |-> <<>>]
        ELSE [ok |-> TRUE,
              task |-> <<[priority |-> p.priority, message |-> items[2],
                          created_on |-> Unset]>>]

\* Variant of parse_task_id: a usize, 0 accepted
parse_task_id_with_zero(string) ==
    LET r == parse_usize(trim(string))
    IN  [ok |-> r.ok, val |-> r.val]

\* parsing::parse_task_id: a NonZeroUsize
parse_task_id(string) ==
    LET r == parse_usize(trim(string))
    IN  [ok |-> r.ok /\ r.val # 0, val |-> r.val]


----------------------------------------------------------------------------
(* Vec<Task> *)

\* Vec::insert(index, element), index counted from 0
VecInsert(v, index, element) ==
    SubSeq(v, 1, index) \o <<element>> \o SubSeq(v, index + 1, Len(v))

\* Variant of VecRemove: the index counted from the last element
VecRemove_from_end(v, index) ==
    [j \in 1..(Len(v) - 1) |->
        IF j <= (Len(v) - 1) - index THEN v[j] ELSE v[j + 1]]

\* Vec::remove(index), index counted from 0
VecRemove(v, index) ==
    [j \in 1..(Len(v) - 1) |-> IF j <= index THEN v[j] ELSE v[j + 1]]

\* Variant of sort_by_key: the slice left as it is
sort_by_key_skipped(v) == v

\* Variant of sort_by_key: an element goes in front of the elements before
\* it whose priority is equal (not a stable sort)
RECURSIVE sort_by_key_unstable(_)
sort_by_key_unstable(v) ==
    IF Len(v) <= 1 THEN v
    ELSE LET head == sort_by_key_unstable(SubSeq(v, 1, Len(v) - 1))
             x == v[Len(v)]
             k == Cardinality({i \in 1..Len(head) :
                                 cmp(head[i].priority, x.priority) = "Less"})
         IN  VecInsert(head, k, x)

\* slice::sort_by_key(|task| task.priority): a stable sort (an insertion
\* sort on short slices): each element goes behind the elements before it
\* whose priority is not greater
RECURSIVE sort_by_key(_)
sort_by_key(v) ==
    IF Len(v) <= 1 THEN v
    ELSE LET head == sort_by_key(SubSeq(v, 1, Len(v) - 1))
             x == v[Len(v)]
             k == Cardinality({i \in 1..Len(head) :
                                 cmp(head[i].priority, x.priority) # "Greater"})
         IN  VecInsert(head, k, x)

\* Variant of search: an equal priority moves begin, not end (the new task
\* goes behind the tasks of its priority)
RECURSIVE search_right(_, _, _, _)
search_right(v, task, begin, end) ==
    IF begin < end
    THEN LET pivot == (begin + end) \div 2
         IN  IF cmp(v[pivot + 1].priority, task.priority) # "Greater"
             THEN search_right(v, task, pivot + 1, end)
             ELSE search_right(v, task, begin, pivot)
    ELSE <<begin, end>>

\* main.rs 196-207: the binary search of add on the half-open range
\* [begin, end); yields the range it ends with
RECURSIVE search(_, _, _, _)
search(v, task, begin, end) ==
    IF begin < end
    THEN LET pivot == (begin + end) \div 2
         IN  IF cmp(v[pivot + 1].priority, task.priority) = "Less"
             THEN search(v, task, pivot + 1, end)
             ELSE search(v, task, begin, pivot)
    ELSE <<begin, end>>

\* main.rs 209: the index add inserts at
insert_index(v, task) ==
    LET r == search(v, task, 0, Len(v))
    IN  (r[1] + r[2]) \div 2

\* main.rs 185-191: add's message, the separators replaced by spaces
sanitize(message) ==
    [i \in 1..Len(message) |->
        IF message[i] \in {RECORD_SEPERATOR, UNIT_SEPERATOR} THEN " "
        ELSE message[i]]

\* Variant of get_tasklist: a line that does not parse is skipped
get_tasklist_lenient(text) ==
    LET ls == lines(text)
        good == SelectSeq(ls, LAMBDA l : parse_task(l).ok)
    IN  [ok |-> TRUE,
         tasklist |-> sort_by_key([i \in 1..Len(good) |->
                                      parse_task(good[i]).task[1]])]

\* get_tasklist: every line parsed, then the stable sort; one line that
\* does not parse fails the whole load
get_tasklist(text) ==
    LET ls == lines(text)
        parsed == [i \in 1..Len(ls) |-> parse_task(ls[i])]
    IN  IF \E i \in 1..Len(ls) : ~parsed[i].ok
        THEN [ok |-> FALSE, tasklist |-> <<>>]
        ELSE [ok |-> TRUE,
              tasklist |-> sort_by_key([i \in 1..Len(ls) |-> parsed[i].task[1]])]

\* The timestamps save_tasklist can format for the tasks of v: a task's own
\* created_on, and any timestamp for a task whose created_on was never set
StampChoices(v) ==
    {st \in [1..Len(v) -> Stamps] :
        \A i \in 1..Len(v) : v[i].created_on # Unset => st[i] = v[i].created_on}

\* main.rs 378-385: the record save_tasklist writes for one task
record(task, stamp) ==
    PriorityDisplay(task.priority) \o <<UNIT_SEPERATOR>> \o task.message
        \o <<UNIT_SEPERATOR>> \o ZonedDisplay(stamp) \o <<RECORD_SEPERATOR>>

\* save_tasklist: the buffer written over the file
RECURSIVE buffer(_, _)
buffer(v, st) ==
    IF v = <<>> THEN <<>>
    ELSE record(v[1], st[1])
           \o buffer(Tail(v), [i \in 1..(Len(v) - 1) |-> st[i + 1]])


----------------------------------------------------------------------------
(* Command line *)

Str_buy_milk == <<"b", "u", "y", " ", "m", "i", "l", "k">>
Str_walk_dog == <<"w", "a", "l", "k", " ", "d", "o", "g">>
Str_separators == <<"a", "US", "LF", "b">>

\* texts given for <TASK_ID>
RawIds == {<<"0">>, <<"1">>, <<"2">>, <<"3">>, <<"x">>}

NoArgv ==
    [op |-> "none", has_priority |-> FALSE, priority |-> <<>>,
     task |-> <<>>, task_id |-> <<>>]

\* the command lines of the model: the subcommand, whether -p is given and
\* its text, the text of <TASK> and the text of <TASK_ID>
Argv ==
    [op : {"add"}, has_priority : {TRUE}, priority : {Str_max, <<"1">>},
     task : {Str_buy_milk, Str_separators}, task_id : {<<>>}]
    \cup [op : {"add"}, has_priority : {FALSE}, priority : {<<>>},
          task : {Str_walk_dog}, task_id : {<<>>}]
    \cup [op : {"add"}, has_priority : {TRUE}, priority : {<<"x">>},
          task : {Str_buy_milk}, task_id : {<<>>}]
    \cup [op : {"info", "remove"}, has_priority : {FALSE}, priority : {<<>>},
          task : {<<>>}, task_id : RawIds]
    \cup [op : {"modify"}, has_priority : {TRUE}, priority : {Str_max, <<"1">>},
          task : {<<>>}, task_id : RawIds]
    \cup [op : {"modify"}, has_priority : {TRUE, FALSE}, priority : {<<"x">>},
          task : {<<>>}, task_id : {<<"1">>}]
    \cup [op : {"list"}, has_priority : {FALSE}, priority : {<<>>},
          task : {<<>>}, task_id : {<<>>}]

NoCommand ==
    [op |-> "none", has_priority |-> FALSE, priority |-> Min,
     task |-> <<>>, task_id |-> 0]

\* Args::parse() for enum Command: the value parsers of the arguments, the
\* default of add's -p and the "modifications" group modify requires
ArgsParse(args) ==
    LET p == parse_priority(args.priority)
        id == parse_task_id(args.task_id)
    IN  CASE args.op = "add" ->
               [ok |-> args.has_priority => p.ok,
                command |-> [op |-> "add", has_priority |-> TRUE,
                             priority |-> IF args.has_priority THEN p.priority
                                          ELSE Min,
                             task |-> args.task, task_id |-> 0]]
          [] args.op \in {"info", "remove"} ->
               [ok |-> id.ok,
                command |-> [op |-> args.op, has_priority |-> FALSE,
                             priority |-> Min, task |-> <<>>,
                             task_id |-> id.val]]
          [] args.op = "modify" ->
               [ok |-> id.ok /\ args.has_priority /\ p.ok,
                command |-> [op |-> "modify", has_priority |-> TRUE,
                             priority |-> p.priority, task |-> <<>>,
                             task_id |-> id.val]]
          [] OTHER ->
               [ok |-> TRUE,
                command |-> [op |-> "list", has_priority |-> FALSE,
                             priority |-> Min, task |-> <<>>, task_id |-> 0]]

\* how an invocation ends: the exit status and the error it prints
Result(kind) == [kind |-> kind, task_id |-> 0, tasklist_len |-> 0]

\* build_invalid_task_id_error: the rejected id and the bound it names
build_invalid_task_id_error(task_id, tasklist_len) ==
    [kind |-> "invalid_task_id", task_id |-> task_id,
     tasklist_len |-> tasklist_len]

----------------------------------------------------------------------------
(* The file before the first invocation: records as save_tasklist writes   *)
(* them, in any order, and hand-edited or damaged lines                    *)

RECURSIVE Join(_)
Join(ls) ==
    IF ls = <<>> THEN <<>>
    ELSE Head(ls) \o <<RECORD_SEPERATOR>> \o Join(Tail(ls))

Line_max_a == Str_max \o <<"US", "a", "US", "T", "1">>
Line_max_b == Str_max \o <<"US", "b", "US", "T", "1">>
Line_1_b == <<"1", "US", "b">>
Line_2_b == <<"2", "US", "b">>
Line_no_separator == Str_max
Line_bad_priority == <<"x", "US", "a">>

InitFiles ==
    {Join(ls) : ls \in {<<>>,
                        <<Line_max_a>>,
                        <<Line_max_a, Line_1_b>>,
                        <<Line_1_b, Line_max_a>>,
                        <<Line_max_a, Line_max_b>>,
                        <<Line_2_b, Line_1_b>>,
                        <<Line_max_a, Line_1_b, Line_max_b>>,
                        <<Line_no_separator>>,
                        <<Line_max_a, Line_bad_priority>>}}

\* no comparison asked for
NoProbe ==
    [a |-> Min, b |-> Min, c |-> Min,
     ab |-> "off", ba |-> "off", bc |-> "off", ac |-> "off"]

MaxDepth == 2

\* the directories on the way from the root (0) to the deepest one
Dirs == 0..MaxDepth

\* a directory without an entry named .ryattl
NoEntry == [entry |-> "none", content |-> <<>>]

NoDisk == [d \in Dirs |-> NoEntry]

\* no invocation of init or of the search
NoProc ==
    [pc |-> "idle", command |-> "none", cwd |-> 0, tasklist_dir |-> 0,
     buffer |-> <<>>, result |-> "none", before |-> NoEntry]

Procs == {"A", "B"}

\* no two invocations at the same time
NoRace ==
    [p \in Procs |->
        [pc |-> "off", command |-> NoCommand, tasklist |-> <<>>,
         buffer |-> <<>>, result |-> Result("none")]]

Init ==
    /\ probe = NoProbe
    /\ disk = NoDisk
    /\ proc = NoProc
    /\ race = NoRace
    /\ log = <<>>
    /\ file \in InitFiles
    /\ pc = "exit"
    /\ command = NoCommand
    /\ tasklist = <<>>
    /\ loaded = <<>>
    /\ file0 = file
    /\ result = Result("none")
    /\ output = <<>>
    /\ runs = 0
    /\ argv = NoArgv
    /\ scenario = IF file = <<>> THEN "start" ELSE "off"
    /\ origin = file

\* the three command lines of the scenario, in their order
ScenarioStep(at, args) ==
    CASE at = "start"
           /\ args = [op |-> "add", has_priority |-> TRUE, priority |-> Str_max,
                      task |-> Str_buy_milk, task_id |-> <<>>] -> "milk"
      [] at = "milk"
           /\ args = [op |-> "add", has_priority |-> FALSE, priority |-> <<>>,
                      task |-> Str_walk_dog, task_id |-> <<>>] -> "dog"
      [] at = "dog"
           /\ args = [op |-> "list", has_priority |-> FALSE, priority |-> <<>>,
                      task |-> <<>>, task_id |-> <<>>] -> "list"
      [] OTHER -> "off"

----------------------------------------------------------------------------
(* One invocation: internal_main *)

\* main.rs 135: the process starts and parses its arguments; clap ends the
\* process on a usage error
Invoke(args) ==
    /\ pc = "exit"
    /\ runs < MaxRuns
    /\ runs' = runs + 1
    /\ argv' = args
    /\ scenario' = ScenarioStep(scenario, args)
    /\ file0' = file
    /\ tasklist' = <<>>
    /\ loaded' = <<>>
    /\ output' = <<>>
    /\ LET a == ArgsParse(args)
       IN  IF a.ok
           THEN /\ command' = a.command
                /\ pc' = "parsed"
                /\ result' = Result("none")
           ELSE /\ command' = NoCommand
                /\ pc' = "exit"
                /\ result' = Result("usage")
    /\ UNCHANGED file
    /\ UNCHANGED others

\* main.rs 177: get_tasklist
Load ==
    /\ pc = "parsed"
    /\ LET r == get_tasklist(file)
       IN  IF r.ok
           THEN /\ tasklist' = r.tasklist
                /\ loaded' = r.tasklist
                /\ pc' = "loaded"
                /\ result' = result
           ELSE /\ UNCHANGED <<tasklist, loaded>>
                /\ pc' = "exit"
                /\ result' = Result("corrupted")
    /\ UNCHANGED <<file, command, file0, output, runs, argv, scenario>>
    /\ UNCHANGED others

\* Variant of task_index: the id counted from the first element
task_index_from_front(tasklist_len, task_id) == task_id - 1

\* main.rs 222, 297, 322: the index of the task an id names
task_index(tasklist_len, task_id) == tasklist_len - task_id

\* Variant of remove_task: no bounds check, the index saturating at 0
remove_task_unchecked(v, task_id) ==
    [err |-> FALSE,
     tasklist |-> VecRemove(v, IF task_id > Len(v) THEN 0
                               ELSE Len(v) - task_id)]

\* main.rs 316-322: remove's bounds check and Vec::remove
remove_task(v, task_id) ==
    IF task_id > Len(v)
    THEN [err |-> TRUE, tasklist |-> v]
    ELSE [err |-> FALSE,
          tasklist |-> VecRemove(v, task_index(Len(v), task_id))]

\* main.rs 329: save_tasklist(tasklist_path, tasklist), then Ok(())
Save(v) ==
    /\ \E st \in StampChoices(v) : file' = buffer(v, st)
    /\ result' = Result("ok")
    /\ pc' = "exit"

\* main.rs 180-213
Add ==
    /\ pc = "loaded"
    /\ command.op = "add"
    /\ \E now \in Stamps :
         LET task == [priority |-> command.priority,
                      message |-> sanitize(command.task),
                      created_on |-> now]
             pivot == insert_index(tasklist, task)
         IN  /\ tasklist' = VecInsert(tasklist, pivot, task)
             /\ Save(tasklist')
    /\ UNCHANGED <<command, loaded, file0, output, runs, argv, scenario>>
    /\ UNCHANGED others

\* main.rs 215-266 and 329: the arm of info does not return, so the match
\* is left and save_tasklist runs; the date shown for a task whose
\* created_on was never set is any timestamp
Info ==
    /\ pc = "loaded"
    /\ command.op = "info"
    /\ LET tasklist_len == Len(tasklist)
           task_id == command.task_id
       IN  IF task_id > tasklist_len
           THEN /\ result' = build_invalid_task_id_error(task_id, tasklist_len)
                /\ output' = output
                /\ pc' = "exit"
                /\ UNCHANGED file
           ELSE LET task == tasklist[task_index(tasklist_len, task_id) + 1]
                IN  /\ \E st \in Stamps :
                         /\ task.created_on # Unset => st = task.created_on
                         /\ output' = <<<<usize_to_string(task_id),
                                          PriorityDisplay(task.priority),
                                          task.message, ZonedDisplay(st)>>>>
                    /\ Save(tasklist)
    /\ UNCHANGED <<command, tasklist, loaded, file0, runs, argv, scenario>>
    /\ UNCHANGED others

\* main.rs 276-283: the rows list prints
list_rows(v) ==
    [index \in 1..Len(v) |->
        <<usize_to_string(index), v[(Len(v) - index) + 1].message>>]

\* main.rs 268-288
List ==
    /\ pc = "loaded"
    /\ command.op = "list"
    /\ IF tasklist = <<>>
       THEN /\ result' = Result("empty")
            /\ output' = output
       ELSE /\ result' = Result("ok")
            /\ output' = list_rows(tasklist)
    /\ pc' = "exit"
    /\ UNCHANGED <<file, command, tasklist, loaded, file0, runs, argv, scenario>>
    /\ UNCHANGED others

\* Variant of set_priority: the priority goes to the task that many places
\* from the end
set_priority_from_end(v, index, has_priority, priority) ==
    sort_by_key([v EXCEPT ![Len(v) - index].priority = priority])

\* main.rs 297-312: the task at index gets the priority, then the re-sort
set_priority(v, index, has_priority, priority) ==
    LET w == IF has_priority
             THEN [v EXCEPT ![index + 1].priority = priority]
             ELSE v
        is_sorted == ~has_priority
    IN  IF ~is_sorted THEN sort_by_key(w) ELSE w

\* main.rs 290-313
Modify ==
    /\ pc = "loaded"
    /\ command.op = "modify"
    /\ LET tasklist_len == Len(tasklist)
           task_id == command.task_id
       IN  IF task_id > tasklist_len
           THEN /\ result' = build_invalid_task_id_error(task_id, tasklist_len)
                /\ pc' = "exit"
                /\ UNCHANGED <<file, tasklist>>
           ELSE /\ tasklist' = set_priority(tasklist,
                                            task_index(tasklist_len, task_id),
                                            command.has_priority,
                                            command.priority)
                /\ Save(tasklist')
    /\ UNCHANGED <<command, loaded, file0, output, runs, argv, scenario>>
    /\ UNCHANGED others

\* main.rs 315-324
Remove ==
    /\ pc = "loaded"
    /\ command.op = "remove"
    /\ LET r == remove_task(tasklist, command.task_id)
       IN  IF r.err
           THEN /\ result' = build_invalid_task_id_error(command.task_id,
                                                         Len(tasklist))
                /\ pc' = "exit"
                /\ UNCHANGED <<file, tasklist>>
           ELSE /\ tasklist' = r.tasklist
                /\ Save(tasklist')
    /\ UNCHANGED <<command, loaded, file0, output, runs, argv, scenario>>
    /\ UNCHANGED others

Next ==
    \/ \E args \in Argv : Invoke(args)
    \/ Load
    \/ Add
    \/ Info
    \/ List
    \/ Modify
    \/ Remove

Spec == Init /\ [][Next]_vars

----------------------------------------------------------------------------
(* Vocabulary of the properties *)

\* The order of priorities as the specification words it: Max above every
\* Value, every Value above Min, two Values as their numbers
PriorityLeq(p, q) ==
    \/ p.kind = "Min"
    \/ q.kind = "Max"
    \/ (p.kind = "Value" /\ q.kind = "Value" /\ p.n <= q.n)

PriorityLt(p, q) == PriorityLeq(p, q) /\ ~PriorityLeq(q, p)

NonDecreasing(v) ==
    \A i \in 1..(Len(v) - 1) : PriorityLeq(v[i].priority, v[i + 1].priority)

\* v without its element at position i (positions counted from 1)
Without(v, i) == SubSeq(v, 1, i - 1) \o SubSeq(v, i + 1, Len(v))

Count(v, x) == Cardinality({i \in 1..Len(v) : v[i] = x})

SameBag(a, b) ==
    /\ Len(a) = Len(b)
    /\ \A i \in 1..Len(a) : Count(a, a[i]) = Count(b, a[i])

HasSeparator(m) ==
    \E i \in 1..Len(m) : m[i] \in {RECORD_SEPERATOR, UNIT_SEPERATOR}

\* The file split into records and parse_task on each, in file order
Decode(text) ==
    LET ls == lines(text)
    IN  [i \in 1..Len(ls) |-> parse_task(ls[i]).task[1]]

Mutating == {"add", "modify", "remove"}

ByOrdinal == {"info", "modify", "remove"}

\* the last invocation ran command op to its end
Completed(op) == pc = "exit" /\ command.op = op /\ result.kind = "ok"

\* the ordinal list shows for the task at position pos of v
Ordinal(v, pos) == (Len(v) - pos) + 1

\* after an add: the position of the task add created (the loaded tasks
\* carry no created_on)
NewPos == CHOOSE j \in 1..Len(tasklist) : tasklist[j].created_on # Unset

\* the number the text of <TASK_ID> denotes, 0 included
GivenId == parse_usize(trim(argv.task_id))

\* an invocation of info / modify / remove has ended whose <TASK_ID> is a
\* number, whose other arguments are valid and whose file decodes
LookupEnded ==
    /\ pc = "exit"
    /\ argv.op \in ByOrdinal
    /\ GivenId.ok
    /\ argv.op = "modify" => argv.has_priority /\ parse_priority(argv.priority).ok
    /\ get_tasklist(file0).ok

StoreLen0 == Len(get_tasklist(file0).tasklist)

----------------------------------------------------------------------------
(* Properties *)

\* C1: after load and after every completed add, modify or remove the
\* in-memory task sequence is non-decreasing by priority, whatever the
\* order of the records in the file was.
C1_SortInvariant ==
    /\ pc = "loaded" => NonDecreasing(tasklist)
    /\ \A op \in Mutating : Completed(op) => NonDecreasing(tasklist)

\* C1 witness: a file whose records were out of order was loaded and a
\* modify completed on it.
C1_Witness ==
    /\ Completed("modify")
    /\ Len(tasklist) >= 2
    /\ ~NonDecreasing(Decode(file0))

\* the task an ordinal k names in a loaded store of length N: the element
\* at zero-based index N - k
C2_Resolves ==
    LET N == Len(loaded)
        k == command.task_id
    IN  /\ Completed("info") =>
              /\ k \in 1..N
              /\ Len(output) = 1
              /\ output[1][1] = usize_to_string(k)
              /\ output[1][2] = PriorityDisplay(loaded[(N - k) + 1].priority)
              /\ output[1][3] = loaded[(N - k) + 1].message
        /\ Completed("remove") =>
              /\ k \in 1..N
              /\ tasklist = Without(loaded, (N - k) + 1)
        /\ Completed("modify") =>
              /\ k \in 1..N
              /\ SameBag(tasklist,
                         [loaded EXCEPT ![(N - k) + 1].priority =
                                           command.priority])

\* C2 as the specification states it: an ordinal k with 1 <= k <= N resolves
\* to index N - k, and the lookup fails with the invalid-ordinal error that
\* carries N when k = 0 or k > N.
C2_Original ==
    /\ C2_Resolves
    /\ LookupEnded /\ (GivenId.val = 0 \/ GivenId.val > StoreLen0)
         => result = build_invalid_task_id_error(GivenId.val, StoreLen0)

\* C2 amended: an ordinal k with 1 <= k <= N resolves to index N - k; k > N
\* fails with the invalid-ordinal error that carries N; k = 0 is rejected
\* when the arguments are parsed, before the file is read, with the usage
\* error and not with the invalid-ordinal error.
C2_OrdinalAddressing ==
    /\ C2_Resolves
    /\ LookupEnded /\ GivenId.val > StoreLen0
         => result = build_invalid_task_id_error(GivenId.val, StoreLen0)
    /\ LookupEnded /\ GivenId.val = 0
         => result = Result("usage") /\ loaded = <<>> /\ file = file0

\* C2 witness: info 1 on a store of two different tasks.
C2_Witness ==
    /\ Completed("info")
    /\ Len(loaded) = 2
    /\ command.task_id = 1
    /\ loaded[1] # loaded[2]

\* C3: decoding what save_tasklist wrote for a valid task sequence
\* (messages free of separators, every task with its timestamp) gives the
\* sequence back: same length, same order, same priority, message and
\* timestamp.
C3_RoundTrip ==
    (/\ \E op \in Mutating : Completed(op)
     /\ \A i \in 1..Len(tasklist) :
           /\ ~HasSeparator(tasklist[i].message)
           /\ tasklist[i].created_on # Unset)
    => Decode(file) = tasklist

\* C4: add puts the new task at the index that equals the number of loaded
\* tasks of strictly lower priority, before every loaded task of its own
\* priority, and leaves the loaded tasks as they were.
C4_InsertLeftEdge ==
    Completed("add") =>
        LET p == command.priority
            k == Cardinality({i \in 1..Len(loaded) :
                                PriorityLt(loaded[i].priority, p)})
        IN  /\ Len(tasklist) = Len(loaded) + 1
            /\ tasklist[k + 1].priority = p
            /\ tasklist[k + 1].created_on # Unset
            /\ Without(tasklist, k + 1) = loaded
            /\ \A i \in 1..k : PriorityLt(tasklist[i].priority, p)
            /\ \A i \in (k + 2)..Len(tasklist) :
                  ~PriorityLt(tasklist[i].priority, p)

\* C4 witness: an add whose priority some loaded task has and some loaded
\* task is below.
C4_Witness ==
    /\ Completed("add")
    /\ \E i \in 1..Len(loaded) : loaded[i].priority = command.priority
    /\ \E i \in 1..Len(loaded) :
          PriorityLt(loaded[i].priority, command.priority)

\* C5 as the specification states it: among tasks of equal priority the
\* task added last has a smaller ordinal than every task added before it.
C5_MostRecentFirst ==
    Completed("add") =>
        \A i \in 1..Len(tasklist) :
            i # NewPos /\ tasklist[i].priority = command.priority
              => Ordinal(tasklist, NewPos) < Ordinal(tasklist, i)

\* C5 amended: among tasks of equal priority the ordinals are oldest-first:
\* the task an add creates has a larger ordinal than every task of the same
\* priority that was in the store before.
C5_OldestFirst ==
    Completed("add") =>
        \A i \in 1..Len(tasklist) :
            i # NewPos /\ tasklist[i].priority = command.priority
              => Ordinal(tasklist, NewPos) > Ordinal(tasklist, i)

\* C5 witness: an add in the third invocation met two tasks of its priority.
C5_Witness ==
    /\ Completed("add")
    /\ runs = 3
    /\ Count([i \in 1..Len(loaded) |-> loaded[i].priority],
             command.priority) >= 2

\* C6: modify with a priority on a valid ordinal k keeps the length, gives
\* the task at index N - k the priority and nothing else, and leaves every
\* other task unchanged and in the same relative order.
C6_ModifyFrame ==
    Completed("modify") =>
        LET N == Len(loaded)
            k == command.task_id
        IN  /\ k \in 1..N
            /\ Len(tasklist) = N
            /\ \E j \in 1..N :
                  /\ tasklist[j] = [loaded[(N - k) + 1] EXCEPT
                                      !.priority = command.priority]
                  /\ Without(tasklist, j) = Without(loaded, (N - k) + 1)

\* C6 witness: a modify on a store of three tasks that the re-sort
\* reordered.
C6_Witness ==
    /\ Completed("modify")
    /\ Len(loaded) = 3
    /\ tasklist # [loaded EXCEPT
                     ![(3 - command.task_id) + 1].priority = command.priority]

\* C7: remove with a valid ordinal k deletes the task at index N - k: the
\* length is N - 1, the tasks before it and behind it keep their contents
\* and places in order, the store is still sorted, and removing the only
\* task leaves the empty store and the empty file.
C7_RemoveFrame ==
    Completed("remove") =>
        LET N == Len(loaded)
            k == command.task_id
        IN  /\ k \in 1..N
            /\ Len(tasklist) = N - 1
            /\ \A i \in 1..(N - k) : tasklist[i] = loaded[i]
            /\ \A i \in ((N - k) + 1)..(N - 1) : tasklist[i] = loaded[i + 1]
            /\ NonDecreasing(tasklist)
            /\ N = 1 => tasklist = <<>> /\ file = <<>>

\* C7 witness: remove 2 on a store of three tasks.
C7_Witness ==
    /\ Completed("remove")
    /\ Len(loaded) = 3
    /\ command.task_id = 2

\* C8: list prints the store from its last element to its first with the
\* rows numbered 1..N, priorities non-increasing from top to bottom; and on
\* an empty task list "add -p max buy milk", "add walk dog", "list" prints
\* "buy milk" as row 1 and "walk dog" as row 2.
C8_ListOrdinals ==
    /\ Completed("list") =>
          LET N == Len(loaded)
          IN  /\ Len(output) = N
              /\ \A i \in 1..N :
                    output[i] = <<usize_to_string(i), loaded[(N - i) + 1].message>>
              /\ \A i \in 1..(N - 1) :
                    PriorityLeq(loaded[N - i].priority,
                                loaded[(N - i) + 1].priority)
    /\ pc = "exit" /\ scenario = "list" =>
          output = << <<usize_to_string(1), Str_buy_milk>>,
                      <<usize_to_string(2), Str_walk_dog>> >>

\* C9: an invocation whose arguments fail validation, or whose ordinal is
\* out of range for the loaded store, ends in failure and leaves the file
\* exactly as it was.
C9_ErrorsKeepFile ==
    /\ pc = "exit" /\ argv.op # "none" /\ ~ArgsParse(argv).ok
         => result = Result("usage") /\ file = file0
    /\ LookupEnded /\ GivenId.val > StoreLen0
         => result.kind = "invalid_task_id" /\ file = file0

\* C9 witness: remove with an ordinal above the length of a non-empty
\* store has ended.
C9_Witness ==
    /\ LookupEnded
    /\ argv.op = "remove"
    /\ StoreLen0 >= 1
    /\ GivenId.val > StoreLen0
    /\ result.kind = "invalid_task_id"

\* a record without a field separator, or with a priority field that does
\* not parse
CorruptLine(l) ==
    \/ ~\E i \in 1..Len(l) : l[i] = UNIT_SEPERATOR
    \/ ~parse_priority(splitn2(l, UNIT_SEPERATOR)[1]).ok

\* C10: when a record of the file has no field separator or a priority
\* that does not parse, the load fails with the corrupted-file error: no
\* task list is produced, the command does nothing and the file stays.
C10_CorruptionAborts ==
    (/\ pc = "exit"
     /\ argv.op # "none"
     /\ ArgsParse(argv).ok
     /\ \E i \in 1..Len(lines(file0)) : CorruptLine(lines(file0)[i]))
    => /\ result = Result("corrupted")
       /\ tasklist = <<>>
       /\ loaded = <<>>
       /\ output = <<>>
       /\ file = file0

\* C10 witness: a modify on a file whose second record has a bad priority
\* ended with the corrupted-file error.
C10_Witness ==
    /\ pc = "exit"
    /\ argv.op = "modify"
    /\ result = Result("corrupted")
    /\ Len(lines(file0)) = 2
    /\ ~CorruptLine(lines(file0)[1])

\* the tasks of v whose priority is p, in their order in v
WithPriority(v, p) == SelectSeq(v, LAMBDA t : t.priority = p)

\* C12: in a store reached from an empty file by add, modify and remove
\* invocations no task message contains the field separator or the record
\* separator; the message add stores is its input with each separator
\* replaced by one space and every other character kept.
C12_NoSeparators ==
    /\ origin = <<>> /\ pc \in {"loaded", "exit"} /\ command.op \in Mutating =>
          \A i \in 1..Len(tasklist) : ~HasSeparator(tasklist[i].message)
    /\ Completed("add") =>
          /\ Len(tasklist[NewPos].message) = Len(command.task)
          /\ \A i \in 1..Len(command.task) :
                tasklist[NewPos].message[i] =
                    IF command.task[i] \in {RECORD_SEPERATOR, UNIT_SEPERATOR}
                    THEN " " ELSE command.task[i]

\* C13: load is a stable sort of the decoded records: the loaded store is a
\* permutation of the records, the tasks of one priority keep the order they
\* have in the file, and records already non-decreasing load in file order.
C13_StableLoad ==
    pc = "loaded" =>
        LET decoded == Decode(file)
        IN  /\ SameBag(tasklist, decoded)
            /\ \A i \in 1..Len(decoded) :
                  WithPriority(tasklist, decoded[i].priority)
                      = WithPriority(decoded, decoded[i].priority)
            /\ NonDecreasing(decoded) => tasklist = decoded

\* C13 witness: a file was loaded whose records are out of order and hold
\* two different tasks of one priority.
C13_Witness ==
    /\ pc = "loaded"
    /\ ~NonDecreasing(Decode(file))
    /\ \E i, j \in 1..Len(Decode(file)) :
          /\ i < j
          /\ Decode(file)[i].priority = Decode(file)[j].priority
          /\ Decode(file)[i] # Decode(file)[j]

\* C17: when info, modify or remove is about to access the store, task_id
\* is at least 1 and, unless the bounds check rejects it, the index
\* tasklist_len - task_id lies in 0..tasklist_len - 1; against an empty
\* store the command ends in the invalid-ordinal error, without an access.
C17_IndexInRange ==
    /\ pc = "loaded" /\ command.op \in ByOrdinal =>
          LET tasklist_len == Len(tasklist)
              task_id == command.task_id
          IN  /\ task_id >= 1
              /\ ~(task_id > tasklist_len) =>
                    task_index(tasklist_len, task_id) \in 0..(tasklist_len - 1)
              /\ tasklist_len = 0 => task_id > tasklist_len
    /\ pc = "exit" /\ command.op \in ByOrdinal /\ loaded = <<>>
          /\ get_tasklist(file0).ok =>
          result.kind = "invalid_task_id"

\* C17 witness: a store of two or more tasks is about to be accessed with
\* the largest valid id, index 0.
C17_Witness ==
    /\ pc = "loaded"
    /\ command.op \in ByOrdinal
    /\ Len(tasklist) >= 2
    /\ command.task_id = Len(tasklist)

\* C18: list and info do not change what is persisted: after either command
\* the file decodes to the task sequence it decoded to before the command
\* (a file that does not decode is left as it is).
C18_ReadOnly ==
    pc = "exit" /\ argv.op \in {"list", "info"} =>
        IF get_tasklist(file0).ok
        THEN get_tasklist(file).ok /\ Decode(file) = Decode(file0)
        ELSE file = file0

\* C19: a completed add makes the store one task longer and keeps every
\* task it loaded, with its priority, message and timestamp and in the same
\* order, in the store and in what the next load reads from the saved file.
C19_AddFrame ==
    Completed("add") =>
        /\ Len(tasklist) = Len(loaded) + 1
        /\ Without(tasklist, NewPos) = loaded
        /\ get_tasklist(file).ok
        /\ Len(get_tasklist(file).tasklist) = Len(loaded) + 1
        /\ Without(get_tasklist(file).tasklist, NewPos) = loaded

----------------------------------------------------------------------------
(* The order of priorities: cmp applied to priorities taken three at a time *)

MaxValue == 2

Priorities == {Max, Min} \cup {Value(n) : n \in 0..MaxValue}

\* no invocation runs and none has run, the task list is empty
Idle ==
    /\ file = <<>>
    /\ pc = "exit"
    /\ command = NoCommand
    /\ tasklist = <<>>
    /\ loaded = <<>>
    /\ file0 = <<>>
    /\ result = Result("none")
    /\ output = <<>>
    /\ runs = 0
    /\ argv = NoArgv
    /\ scenario = "off"
    /\ origin = <<>>

InitOrder ==
    /\ Idle
    /\ probe \in [a : Priorities, b : Priorities, c : Priorities,
                  ab : {"none"}, ba : {"none"}, bc : {"none"}, ac : {"none"}]
    /\ disk = NoDisk
    /\ proc = NoProc
    /\ race = NoRace
    /\ log = <<>>

\* impl Ord for Priority: self.cmp(other) for the pairs of the three
Compare ==
    /\ probe.ab = "none"
    /\ probe' = [probe EXCEPT !.ab = cmp(probe.a, probe.b),
                              !.ba = cmp(probe.b, probe.a),
                              !.bc = cmp(probe.b, probe.c),
                              !.ac = cmp(probe.a, probe.c)]
    /\ UNCHANGED mainVars
    /\ UNCHANGED <<origin, disk, proc, race, log>>

NextOrder == Compare

SpecOrder == InitOrder /\ [][NextOrder]_vars

Compared == probe.ab \notin {"off", "none"}

Reverse(o) ==
    CASE o = "Less" -> "Greater"
      [] o = "Greater" -> "Less"
      [] OTHER -> "Equal"

\* C11: cmp is a total order: Max is greater than every Value and than Min,
\* Min is less than every Value and than Max, Max equals only Max and Min
\* only Min, two Values compare as their numbers; cmp(b, a) is the reverse
\* of cmp(a, b), cmp is transitive, and Equal exactly when a = b.
C11_TotalOrder ==
    Compared =>
        LET a == probe.a
            b == probe.b
        IN  /\ a.kind = "Max" /\ b.kind # "Max" => probe.ab = "Greater"
            /\ a.kind = "Min" /\ b.kind # "Min" => probe.ab = "Less"
            /\ a.kind # "Max" /\ b.kind = "Max" => probe.ab = "Less"
            /\ a.kind # "Min" /\ b.kind = "Min" => probe.ab = "Greater"
            /\ a.kind = "Value" /\ b.kind = "Value" =>
                  /\ probe.ab = "Less" <=> a.n < b.n
                  /\ probe.ab = "Greater" <=> a.n > b.n
            /\ probe.ab = "Equal" <=> a = b
            /\ probe.ba = Reverse(probe.ab)
            /\ probe.ab # "Greater" /\ probe.bc # "Greater"
                  => probe.ac # "Greater"
            /\ probe.ab = "Less" /\ probe.bc # "Greater" => probe.ac = "Less"
            /\ probe.ab # "Greater" /\ probe.bc = "Less" => probe.ac = "Less"

\* C11 witness: Min, a Value and Max were compared, in this order.
C11_Witness ==
    /\ Compared
    /\ probe.a = Min
    /\ probe.b.kind = "Value"
    /\ probe.c = Max
    /\ probe.ac = "Less"

----------------------------------------------------------------------------
(* init and get_tasklist_path: the directories between the root and the    *)
(* working directory, each with no entry, a file or a directory named      *)
(* .ryattl                                                                  *)

\* what <dir>/.ryattl can be before the program runs
Entries ==
    {NoEntry,
     [entry |-> "dir", content |-> <<>>],
     [entry |-> "file", content |-> <<>>],
     [entry |-> "file", content |-> Join(<<Line_max_a>>)]}

\* the lines read_line can return for the prompt ("" at end of input)
Answers ==
    {<<>>, <<"LF">>, <<"y", "LF">>, <<"n", "LF">>, <<"Y", "LF">>,
     <<"y", "e", "s", "LF">>, <<" ", "y", "LF">>}

InitFs ==
    /\ Idle
    /\ probe = NoProbe
    /\ disk \in [Dirs -> Entries]
    /\ proc = NoProc
    /\ race = NoRace
    /\ log = <<>>

\* the variables init and the search leave alone
noFs ==
    <<file, pc, command, tasklist, loaded, file0, result, output, runs, argv,
      scenario, origin, probe, race, log>>

\* the program is started in directory cwd, with init or another command
Start(op, cwd) ==
    /\ proc.pc = "idle"
    /\ proc' = [pc |-> IF op = "init" THEN "init" ELSE "walk",
                command |-> op, cwd |-> cwd, tasklist_dir |-> cwd,
                buffer |-> <<>>, result |-> "none", before |-> disk[cwd]]
    /\ UNCHANGED disk
    /\ UNCHANGED noFs

\* Path::try_exists: the path names something
try_exists(e) == e.entry # "none"

\* fs::File::create(tasklist_path): a missing file is created, a file is
\* truncated, a directory is an error
Create(p) ==
    IF disk[p.cwd].entry = "dir"
    THEN /\ proc' = [p EXCEPT !.pc = "exit", !.result = "io_error"]
         /\ UNCHANGED disk
    ELSE /\ disk' = [disk EXCEPT ![p.cwd] = [entry |-> "file", content |-> <<>>]]
         /\ proc' = [p EXCEPT !.pc = "exit", !.result = "ok"]

\* main.rs 137-150, 165-173: init up to the prompt, or to its end where
\* nothing is in the way
InitCommand ==
    /\ proc.pc = "init"
    /\ IF try_exists(disk[proc.cwd])
       THEN /\ proc' = [proc EXCEPT !.pc = "prompt"]
            /\ UNCHANGED disk
       ELSE Create(proc)
    /\ UNCHANGED noFs

\* Variant of confirmed: an empty answer confirms
confirmed_by_default(answer) ==
    \/ Len(answer) = 0
    \/ answer[1] = "LF"
    \/ answer[1] = "y"

\* main.rs 158: let Some('y') = buffer.chars().next()
confirmed(answer) == Len(answer) > 0 /\ answer[1] = "y"

\* main.rs 152-173: the answer is read; init returns Ok unless it begins
\* with y, otherwise the file is created anew
ReadLine(b) ==
    /\ proc.pc = "prompt"
    /\ IF confirmed(b)
       THEN Create([proc EXCEPT !.buffer = b])
       ELSE /\ proc' = [proc EXCEPT !.pc = "exit", !.buffer = b, !.result = "ok"]
            /\ UNCHANGED disk
    /\ UNCHANGED noFs

\* Variant of is_tasklist: anything named .ryattl is taken
is_tasklist_if_exists(e) == e.entry # "none"

\* main.rs 351: tasklist_path.exists() && tasklist_path.is_file()
is_tasklist(e) == e.entry # "none" /\ e.entry = "file"

\* Path::parent: the root has none
HasParent(dir) == dir # 0

\* main.rs 348-359: one turn of the loop of get_tasklist_path
PathStep ==
    /\ proc.pc = "walk"
    /\ IF is_tasklist(disk[proc.tasklist_dir])
       THEN proc' = [proc EXCEPT !.pc = "exit", !.result = "ok"]
       ELSE IF HasParent(proc.tasklist_dir)
            THEN proc' = [proc EXCEPT !.tasklist_dir = proc.tasklist_dir - 1]
            ELSE proc' = [proc EXCEPT !.pc = "exit", !.result = "no_tasklist"]
    /\ UNCHANGED disk
    /\ UNCHANGED noFs

\* the process has ended; the program can be started again
Exit ==
    /\ proc.pc = "exit"
    /\ proc' = [proc EXCEPT !.pc = "idle"]
    /\ UNCHANGED disk
    /\ UNCHANGED noFs

NextFs ==
    \/ \E op \in {"init", "other"}, cwd \in Dirs : Start(op, cwd)
    \/ InitCommand
    \/ \E b \in Answers : ReadLine(b)
    \/ PathStep
    \/ Exit

SpecFs == InitFs /\ [][NextFs]_vars

\* the loop of get_tasklist_path is sequential code: a started turn runs
SpecFsFair == SpecFs /\ WF_vars(PathStep)

\* C15: init where .ryattl is already a file, answered with a line that
\* does not begin with y, ends in success with the file's content as it
\* was; the file is emptied only after the prompt was answered with y.
C15_DeclinedKeepsFile ==
    proc.pc = "exit" /\ proc.command = "init" /\ proc.before.entry = "file" =>
        /\ ~(Len(proc.buffer) > 0 /\ proc.buffer[1] = "y") =>
              /\ disk[proc.cwd] = proc.before
              /\ proc.result = "ok"
        /\ disk[proc.cwd] # proc.before =>
              /\ Len(proc.buffer) > 0 /\ proc.buffer[1] = "y"
              /\ disk[proc.cwd] = [entry |-> "file", content |-> <<>>]

\* C15 witness: a file with a task in it was kept after the answer n.
C15_Witness ==
    /\ proc.pc = "exit"
    /\ proc.command = "init"
    /\ proc.before = [entry |-> "file", content |-> Join(<<Line_max_a>>)]
    /\ proc.buffer = <<"n", "LF">>
    /\ disk[proc.cwd] = proc.before
    /\ proc.result = "ok"

\* the directories from cwd up to the root that hold a file named .ryattl
HoldingFile(cwd) == {d \in 0..cwd : disk[d].entry = "file"}

Deepest(S) == CHOOSE d \in S : \A e \in S : e <= d

\* the search of a command other than init has ended
SearchEnded == proc.pc = "exit" /\ proc.command = "other"

C16_Nearest ==
    SearchEnded =>
        IF HoldingFile(proc.cwd) # {}
        THEN /\ proc.result = "ok"
             /\ proc.tasklist_dir = Deepest(HoldingFile(proc.cwd))
        ELSE proc.result = "no_tasklist"

\* C16: a command other than init uses the file of the nearest directory,
\* from the working directory up to the root, that holds a file named
\* .ryattl, and fails with the no-task-list error if none does; the walk
\* upward always ends.
C16_NearestFile ==
    /\ []C16_Nearest
    /\ (proc.pc = "walk") ~> SearchEnded

\* C16 witness: the working directory holds a directory named .ryattl, its
\* parent and the root each hold a file; the parent's file was found.
C16_Witness ==
    /\ SearchEnded
    /\ proc.cwd = 2
    /\ disk[2].entry = "dir"
    /\ disk[1].entry = "file"
    /\ disk[0].entry = "file"
    /\ proc.result = "ok"
    /\ proc.tasklist_dir = 1

----------------------------------------------------------------------------
(* Two invocations at the same time on one task-list file: each reads the  *)
(* file, applies its command and saves; save_tasklist is File::create and   *)
(* then write_all, two operations on the file                               *)

\* the file the two invocations find
RaceFiles ==
    {Join(ls) : ls \in {<<>>, <<Line_max_a>>, <<Line_1_b, Line_max_a>>}}

\* their command lines
RaceArgv ==
    {[op |-> "add", has_priority |-> TRUE, priority |-> Str_max,
      task |-> Str_buy_milk, task_id |-> <<>>],
     [op |-> "add", has_priority |-> TRUE, priority |-> <<"1">>,
      task |-> <<"a">>, task_id |-> <<>>],
     [op |-> "remove", has_priority |-> FALSE, priority |-> <<>>,
      task |-> <<>>, task_id |-> <<"1">>]}

InitRace ==
    /\ file \in RaceFiles
    /\ origin = file
    /\ file0 = file
    /\ pc = "exit"
    /\ command = NoCommand
    /\ tasklist = <<>>
    /\ loaded = <<>>
    /\ result = Result("none")
    /\ output = <<>>
    /\ runs = 0
    /\ argv = NoArgv
    /\ scenario = "off"
    /\ probe = NoProbe
    /\ disk = NoDisk
    /\ proc = NoProc
    /\ race \in {[p \in Procs |->
                    [pc |-> "parsed", command |-> ArgsParse(a[p]).command,
                     tasklist |-> <<>>, buffer |-> <<>>,
                     result |-> Result("none")]] : a \in [Procs -> RaceArgv]}
    /\ log = <<>>

\* the variables of the single invocation, and the other specifications'
noRace ==
    <<pc, command, tasklist, loaded, file0, result, output, runs, argv,
      scenario, origin, probe, disk, proc>>

\* main.rs 176-177: p reads the file
RaceLoad(p) ==
    /\ race[p].pc = "parsed"
    /\ LET r == get_tasklist(file)
       IN  race' = [race EXCEPT ![p] =
                       IF r.ok
                       THEN [@ EXCEPT !.pc = "loaded", !.tasklist = r.tasklist]
                       ELSE [@ EXCEPT !.pc = "exit",
                                      !.result = Result("corrupted")]]
    /\ log' = Append(log, <<p, "load">>)
    /\ UNCHANGED file
    /\ UNCHANGED noRace

\* main.rs 180-213, 315-324: the command applied to the tasks v
run_command(c, v, now) ==
    IF c.op = "add"
    THEN LET task == [priority |-> c.priority, message |-> sanitize(c.task),
                      created_on |-> now]
         IN  [err |-> FALSE,
              tasklist |-> VecInsert(v, insert_index(v, task), task)]
    ELSE remove_task(v, c.task_id)

\* Variant of File_create: the file opened for writing without truncation
File_create_keeping(f) == f

\* fs::File::create on an existing file: its content is cut to nothing
File_create(f) == <<>>

\* write_all on the handle File::create returned: buf goes over the file
\* from its first byte, what the file holds beyond buf stays
write_all(f, buf) == buf \o SubSeq(f, Len(buf) + 1, Len(f))

\* main.rs 179-329 and 375-387: p applies its command, formats the buffer
\* and creates the file; an invalid id ends p before the save
RaceCreate(p) ==
    /\ race[p].pc = "loaded"
    /\ \E now \in Stamps :
         LET r == run_command(race[p].command, race[p].tasklist, now)
         IN  IF r.err
             THEN /\ race' = [race EXCEPT ![p] =
                                 [@ EXCEPT !.pc = "exit",
                                           !.result = build_invalid_task_id_error(
                                               race[p].command.task_id,
                                               Len(race[p].tasklist))]]
                  /\ UNCHANGED <<file, log>>
             ELSE /\ \E st \in StampChoices(r.tasklist) :
                       race' = [race EXCEPT ![p] =
                                   [@ EXCEPT !.pc = "created",
                                             !.tasklist = r.tasklist,
                                             !.buffer = buffer(r.tasklist, st)]]
                  /\ file' = File_create(file)
                  /\ log' = Append(log, <<p, "create">>)
    /\ UNCHANGED noRace

\* main.rs 389-392: p writes its buffer
RaceWrite(p) ==
    /\ race[p].pc = "created"
    /\ file' = write_all(file, race[p].buffer)
    /\ race' = [race EXCEPT ![p] = [@ EXCEPT !.pc = "exit",
                                             !.result = Result("ok")]]
    /\ log' = Append(log, <<p, "write">>)
    /\ UNCHANGED noRace

NextRace ==
    \/ \E p \in Procs : RaceLoad(p)
    \/ \E p \in Procs : RaceCreate(p)
    \/ \E p \in Procs : RaceWrite(p)

SpecRace == InitRace /\ [][NextRace]_vars

\* when p did the file operation op: its place in the log (0: not done)
At(p, op) ==
    IF \E i \in 1..Len(log) : log[i] = <<p, op>>
    THEN CHOOSE i \in 1..Len(log) : log[i] = <<p, op>>
    ELSE 0

\* both invocations have ended and both have saved
BothSaved ==
    \A p \in Procs : race[p].pc = "exit" /\ At(p, "create") > 0

\* both loaded the file before either began to save
LoadedBeforeSaves ==
    \A p, q \in Procs : At(p, "load") < At(q, "create")

\* the invocation whose write came last, and the other one
LaterSaver == CHOOSE p \in Procs : \A q \in Procs : At(q, "write") <= At(p, "write")

EarlierSaver == CHOOSE p \in Procs : p # LaterSaver

\* one save was over before the other began
SavesApart == At(EarlierSaver, "write") < At(LaterSaver, "create")

\* the buffers p can save when it runs alone on the file found
OwnResult(p) ==
    UNION {LET alone == run_command(race[p].command,
                                    get_tasklist(origin).tasklist, now).tasklist
           IN  {buffer(alone, st) : st \in StampChoices(alone)} :
           now \in Stamps}

\* C14 as stated: after two invocations that both loaded before either
\* saved, the file is the later saver's result from its own snapshot, no
\* error is reported, and the file is never a mixture of the two writes.
C14_Original ==
    BothSaved /\ LoadedBeforeSaves =>
        /\ file = race[LaterSaver].buffer
        /\ file \in OwnResult(LaterSaver)
        /\ \A p \in Procs : race[p].result.kind = "ok"

\* C14: after two invocations that both loaded before either saved, no
\* error is reported and the later saver's buffer comes from its own
\* snapshot; the file is that buffer when the saves did not overlap, and
\* otherwise that buffer followed by what the earlier saver's buffer holds
\* beyond its length.
C14_LastWriterWins ==
    BothSaved /\ LoadedBeforeSaves =>
        /\ \A p \in Procs : race[p].result.kind = "ok"
        /\ race[LaterSaver].buffer \in OwnResult(LaterSaver)
        /\ SavesApart => file = race[LaterSaver].buffer
        /\ ~SavesApart =>
              file = race[LaterSaver].buffer
                       \o SubSeq(race[EarlierSaver].buffer,
                                 Len(race[LaterSaver].buffer) + 1,
                                 Len(race[EarlierSaver].buffer))

\* C14 witness: the saves did not overlap, the earlier saver wrote the
\* longer buffer, and the file is the later saver's buffer alone.
C14_Witness ==
    /\ BothSaved
    /\ LoadedBeforeSaves
    /\ SavesApart
    /\ Len(race[EarlierSaver].buffer) > Len(race[LaterSaver].buffer)
    /\ file = race[LaterSaver].buffer

=============================================================================
